---- MODULE Spec2Model ----
(***************************************************************************)
(* A model of dashboard.py, the single-file running-coach dashboard:       *)
(* the goal store (save_goal / load_goal on goal.json), the activity       *)
(* fetch, the pace converter, the training plan generator, the keyword     *)
(* analyst and the top-to-bottom render script that ties them together.    *)
(*                                                                         *)
(* Representation.                                                         *)
(*  - Python strings are TLA+ strings; non-ASCII characters of the source  *)
(*    literals (emoji, en dashes) are written in ASCII.                    *)
(*  - A Python value is a record with a "tag" (None, int, float, str,      *)
(*    inf, nan, dict, list).                                               *)
(*  - A float is held in fixed point: an integer number of 1/Scale units,  *)
(*    Scale = 10^FracDigits.  Division truncates to that precision, the    *)
(*    way a double rounds to its own; repr/parse of a float are exact for  *)
(*    the values held, as float.__repr__ is for doubles.                   *)
(*  - A date is a day ordinal of one fixed non-leap year; str(date) and    *)
(*    strptime(.., "%Y-%m-%d") are the conversions to and from the         *)
(*    ISO text.                                                            *)
(***************************************************************************)
EXTENDS Integers, Sequences, FiniteSets, TLC

VARIABLES
    file,       \* goal.json: [exists, access, data] (data: the bytes)
    sess,       \* per browser session: the render script's position and locals
    universe,   \* the input sets the environment draws from (fixed by Init)
    call,       \* a direct call of one helper function: its name and arguments
    ret,        \* what that call returned or raised
    last_writer \* history: the session whose save wrote the file last

vars == <<file, sess, universe, call, ret, last_writer>>

(***************************************************************************)
(* Bounds of the model.                                                    *)
(***************************************************************************)
\* race_day - today ranges over -MaxDays .. MaxDays in direct calls
MaxDays == 44
\* fractional decimal digits kept by the fixed-point floats
FracDigits == 2
\* largest integer part of a pace (s/km) passed directly to seconds_to_pace
MaxPaceSec == 130

RECURSIVE Pow10(_)
Pow10(n) == IF n = 0 THEN 1 ELSE 10 * Pow10(n - 1)

Scale == Pow10(FracDigits)

(***************************************************************************)
(* Python values.                                                          *)
(***************************************************************************)
PyNone == [tag |-> "None"]
PyInt(i) == [tag |-> "int", n |-> i]
PyFloat(v) == [tag |-> "float", n |-> v]
PyStr(s) == [tag |-> "str", s |-> s]
PyInf == [tag |-> "inf"]
PyNaN == [tag |-> "nan"]
PyDict(d) == [tag |-> "dict", d |-> d]
PyList(l) == [tag |-> "list", l |-> l]

IsNumber(v) == v.tag \in {"int", "float"}

\* the value of a number in 1/Scale units (an int n is n.0)
Units(v) == IF v.tag = "int" THEN v.n * Scale ELSE v.n

Returned(v) == [kind |-> "value", val |-> v]
Raised(e) == [kind |-> "raised", exc |-> e]
NoRet == [kind |-> "none"]

(***************************************************************************)
(* Text helpers: characters, decimal formatting and parsing.               *)
(***************************************************************************)
Char(s, i) == SubSeq(s, i, i)

Digits == "0123456789"

IsDigit(c) == \E i \in 1..10 : Char(Digits, i) = c

DigitVal(c) == (CHOOSE i \in 1..10 : Char(Digits, i) = c) - 1

RECURSIVE DecStr(_)
\* str(n) / f"{n}" for n >= 0
DecStr(n) == IF n < 10 THEN Char(Digits, n + 1)
             ELSE DecStr(n \div 10) \o Char(Digits, (n % 10) + 1)

RECURSIVE PadLeft(_, _)
\* zero padding to a minimum width: f"{n:0wd}"
PadLeft(s, w) == IF Len(s) >= w THEN s ELSE PadLeft("0" \o s, w)

AllDigits(s) == Len(s) > 0 /\ \A i \in 1..Len(s) : IsDigit(Char(s, i))

RECURSIVE DecVal(_)
\* int(s) for a non-empty digit string
DecVal(s) == IF Len(s) = 0 THEN 0
             ELSE DecVal(SubSeq(s, 1, Len(s) - 1)) * 10 + DigitVal(Char(s, Len(s)))

RECURSIVE FindFrom(_, _, _)
\* the first index >= i at which t occurs in s, 0 if none
FindFrom(s, t, i) ==
    IF i + Len(t) - 1 > Len(s) THEN 0
    ELSE IF SubSeq(s, i, i + Len(t) - 1) = t THEN i
    ELSE FindFrom(s, t, i + 1)

\* Python's  t in s
Contains(s, t) == FindFrom(s, t, 1) # 0

Upper == "ABCDEFGHIJKLMNOPQRSTUVWXYZ"
LowerAlpha == "abcdefghijklmnopqrstuvwxyz"

LowerChar(c) == IF \E i \in 1..26 : Char(Upper, i) = c
                THEN Char(LowerAlpha, CHOOSE i \in 1..26 : Char(Upper, i) = c)
                ELSE c

RECURSIVE Lower(_)
\* str.lower() on ASCII text
Lower(s) == IF Len(s) = 0 THEN "" ELSE LowerChar(Char(s, 1)) \o Lower(Tail(s))

(***************************************************************************)
(* Pace converter (dashboard.py 44-55).                                    *)
(***************************************************************************)
\* a / b on floats, a and b >= 0 given in integer units with b > 0:
\* the quotient in 1/Scale units, truncated
FDiv(a, b) == (a \div b) * Scale + ((a % b) * Scale) \div b

calculate_pace(moving_time, distance_meters) ==
    IF distance_meters = 0 THEN PyInt(0)
    ELSE PyFloat(FDiv(moving_time * 1000, distance_meters))

seconds_to_pace(sec_per_km) ==
    IF sec_per_km.tag = "inf" THEN Returned("-")
    ELSE IF IsNumber(sec_per_km) /\ sec_per_km.n = 0 THEN Returned("-")
    ELSE IF sec_per_km.tag = "None" THEN Raised("TypeError")
    ELSE IF sec_per_km.tag = "nan" THEN Raised("ValueError")
    ELSE LET whole == Units(sec_per_km) \div Scale
             minutes == whole \div 60
             seconds == whole % 60
         IN  Returned(DecStr(minutes) \o ":" \o PadLeft(DecStr(seconds), 2) \o " min/km")

(***************************************************************************)
(* Training plan generator (dashboard.py 57-74).                           *)
(***************************************************************************)
NotEnoughTime == "Not enough time to generate a full training plan."
RaceWeek == "Race Week: Taper, 2 short easy runs"
TempoRun == "Tempo Run (4-8 km at goal pace)"
Intervals == "Intervals (e.g., 4x1km faster pace)"
EasyRuns == "1-2 Easy Runs (5-8 km)"
LongRun(week) == "Long Run (" \o DecStr(10 + week * 1) \o " to " \o DecStr(14 + week * 1) \o " km)"

\* week_plan with the tempo threshold off by one (runs_per_week > 4)
week_plan_tempo_gt4(week, weeks_left, runs_per_week) ==
    IF week = weeks_left - 1 THEN <<RaceWeek>>
    ELSE <<LongRun(week)>>
         \o (IF runs_per_week > 4 THEN <<TempoRun>> ELSE <<>>)
         \o (IF runs_per_week >= 5 THEN <<Intervals>> ELSE <<>>)
         \o <<EasyRuns>>

week_plan(week, weeks_left, runs_per_week) ==
    IF week = weeks_left - 1 THEN <<RaceWeek>>
    ELSE <<LongRun(week)>>
         \o (IF runs_per_week >= 4 THEN <<TempoRun>> ELSE <<>>)
         \o (IF runs_per_week >= 5 THEN <<Intervals>> ELSE <<>>)
         \o <<EasyRuns>>

\* generate_training_plan with the short-notice test off by one (weeks_left < 1)
generate_training_plan_lt1(today, race_day, runs_per_week) ==
    LET weeks_left == (race_day - today) \div 7
    IN  IF weeks_left < 1 THEN <<NotEnoughTime>>
        ELSE [i \in 1..weeks_left |-> week_plan(i - 1, weeks_left, runs_per_week)]

generate_training_plan(today, race_day, runs_per_week) ==
    LET weeks_left == (race_day - today) \div 7
    IN  IF weeks_left < 2 THEN <<NotEnoughTime>>
        ELSE [i \in 1..weeks_left |-> week_plan(i - 1, weeks_left, runs_per_week)]

(***************************************************************************)
(* Dates and times: datetime.strptime and str(date).                       *)
(***************************************************************************)
YearText == "2026"
MonthLen == <<31, 28, 31, 30, 31, 30, 31, 31, 30, 31, 30, 31>>

RECURSIVE DaysBefore(_)
\* days of the year before the first of month m
DaysBefore(m) == IF m = 1 THEN 0 ELSE DaysBefore(m - 1) + MonthLen[m - 1]

MonthOf(ord) == CHOOSE m \in 1..12 : DaysBefore(m) < ord /\ ord <= DaysBefore(m) + MonthLen[m]

\* str(date): the ISO text of a day ordinal of the year
DateStr(ord) ==
    LET m == MonthOf(ord)
    IN  YearText \o "-" \o PadLeft(DecStr(m), 2) \o "-" \o PadLeft(DecStr(ord - DaysBefore(m)), 2)

\* the text before the first occurrence of sep at or after i, and the index after sep
\* (0 when sep does not occur)
Field(s, sep, i) ==
    LET j == FindFrom(s, sep, i)
    IN  IF j = 0 THEN [text |-> SubSeq(s, i, Len(s)), next |-> 0]
        ELSE [text |-> SubSeq(s, i, j - 1), next |-> j + Len(sep)]

ShortNumber(t) == AllDigits(t) /\ Len(t) <= 2

\* datetime.strptime(s, "%Y-%m-%d").date(): the day ordinal, or raised ValueError
ParseDate(s) ==
    LET y == Field(s, "-", 1)
        m == Field(s, "-", y.next)
        d == SubSeq(s, m.next, Len(s))
    IN  IF y.next = 0 \/ m.next = 0 THEN Raised("ValueError")
        ELSE IF ~(y.text = YearText /\ ShortNumber(m.text) /\ ShortNumber(d)) THEN Raised("ValueError")
        ELSE IF ~(DecVal(m.text) \in 1..12) THEN Raised("ValueError")
        ELSE IF ~(DecVal(d) \in 1..MonthLen[DecVal(m.text)]) THEN Raised("ValueError")
        ELSE Returned(DaysBefore(DecVal(m.text)) + DecVal(d))

\* datetime.strptime(s, "%H:%M:%S"): hour*3600 + minute*60 + second, or raised ValueError
ParseTime(s) ==
    LET h == Field(s, ":", 1)
        m == Field(s, ":", h.next)
        sec == SubSeq(s, m.next, Len(s))
    IN  IF h.next = 0 \/ m.next = 0 THEN Raised("ValueError")
        ELSE IF ~(ShortNumber(h.text) /\ ShortNumber(m.text) /\ ShortNumber(sec)) THEN Raised("ValueError")
        ELSE IF ~(DecVal(h.text) <= 23 /\ DecVal(m.text) <= 59 /\ DecVal(sec) <= 59) THEN Raised("ValueError")
        ELSE Returned(DecVal(h.text) * 3600 + DecVal(m.text) * 60 + DecVal(sec))

(***************************************************************************)
(* Configuration (dashboard.py 11-19) and the goal record (112-131).       *)
(***************************************************************************)
RaceTypes == <<"5K", "10K", "Half Marathon", "Marathon">>
RunsPerWeekOptions == <<3, 4, 5, 6>>

\* RACE_DISTANCES in units of 1/10000 km
DistanceUnit == 10000
RACE_DISTANCES == [r \in {RaceTypes[i] : i \in 1..4} |->
    CASE r = "5K" -> 5 * DistanceUnit
      [] r = "10K" -> 10 * DistanceUnit
      [] r = "Half Marathon" -> 210975
      [] r = "Marathon" -> 421950]

InvalidFormat == "Invalid format!"

\* the try/except of lines 113-121: <<target_pace_sec, target_pace_formatted>>
target_pace(race_type, target_time_str) ==
    LET t == ParseTime(target_time_str)
    IN  IF t.kind = "raised" THEN <<PyNone, InvalidFormat>>
        ELSE LET target_pace_sec == PyFloat(FDiv(t.val * DistanceUnit, RACE_DISTANCES[race_type]))
                 formatted == seconds_to_pace(target_pace_sec)
             IN  IF formatted.kind = "raised" THEN <<PyNone, InvalidFormat>>
                 ELSE <<target_pace_sec, formatted.val>>

\* current_goal_data of lines 124-131
current_goal(race_type, target_time_str, race_date, runs_per_week) ==
    [race_type |-> PyStr(race_type),
     target_time |-> PyStr(target_time_str),
     race_date |-> PyStr(DateStr(race_date)),
     runs_per_week |-> PyInt(runs_per_week),
     target_pace_sec |-> target_pace(race_type, target_time_str)[1],
     target_pace_formatted |-> PyStr(target_pace(race_type, target_time_str)[2])]

(***************************************************************************)
(* JSON text: json.dump and json.load on the values the goal file holds    *)
(* (an object of strings, numbers and null; a scalar; the empty list).     *)
(***************************************************************************)
Quote == "\""
Backslash == "\\"

\* EscapeStr that writes every character as it is
EscapeStr_raw(s) == s

RECURSIVE EscapeStr(_)
\* the body of a JSON string literal: quote and backslash are escaped
EscapeStr(s) ==
    IF Len(s) = 0 THEN ""
    ELSE (IF Char(s, 1) \in {Quote, Backslash} THEN Backslash \o Char(s, 1) ELSE Char(s, 1))
         \o EscapeStr(Tail(s))

RECURSIVE StripZeros(_)
\* a fraction's digits without trailing zeros, one digit at least
StripZeros(d) == IF Len(d) > 1 /\ Char(d, Len(d)) = "0" THEN StripZeros(SubSeq(d, 1, Len(d) - 1)) ELSE d

\* float.__repr__ of a fixed-point value >= 0
FloatRepr(v) == DecStr(v \div Scale) \o "." \o StripZeros(PadLeft(DecStr(v % Scale), FracDigits))

EncodeScalar(v) ==
    CASE v.tag = "None" -> "null"
      [] v.tag = "int" -> DecStr(v.n)
      [] v.tag = "float" -> FloatRepr(v.n)
      [] v.tag = "str" -> Quote \o EscapeStr(v.s) \o Quote

\* the keys of the goal dict in insertion order (lines 124-131)
GoalKeys == <<"race_type", "target_time", "race_date", "runs_per_week",
              "target_pace_sec", "target_pace_formatted">>

RECURSIVE EncodeItems(_, _)
EncodeItems(d, i) ==
    IF i > Len(GoalKeys) THEN ""
    ELSE (IF i > 1 THEN ", " ELSE "")
         \o Quote \o GoalKeys[i] \o Quote \o ": " \o EncodeScalar(d[GoalKeys[i]])
         \o EncodeItems(d, i + 1)

\* json.dumps(goal_data) with the default separators
json_dumps(d) == "{" \o EncodeItems(d, 1) \o "}"

Fail == [ok |-> FALSE]
Ok(v, next) == [ok |-> TRUE, val |-> v, next |-> next]

RECURSIVE SkipWs(_, _)
SkipWs(s, i) == IF i <= Len(s) /\ Char(s, i) = " " THEN SkipWs(s, i + 1) ELSE i

RECURSIVE ScanString(_, _, _)
\* the rest of a string literal from index i on, acc the characters read so far
ScanString(s, i, acc) ==
    IF i > Len(s) THEN Fail
    ELSE IF Char(s, i) = Quote THEN Ok(PyStr(acc), i + 1)
    ELSE IF Char(s, i) = Backslash
         THEN IF i + 1 <= Len(s) /\ Char(s, i + 1) \in {Quote, Backslash}
              THEN ScanString(s, i + 2, acc \o Char(s, i + 1))
              ELSE Fail
    ELSE ScanString(s, i + 1, acc \o Char(s, i))

RECURSIVE DigitsEnd(_, _)
\* the index after the run of digits that starts at i
DigitsEnd(s, i) == IF i <= Len(s) /\ IsDigit(Char(s, i)) THEN DigitsEnd(s, i + 1) ELSE i

\* a fraction's digits as 1/Scale units (digits beyond FracDigits are dropped)
FracUnits(d) ==
    IF Len(d) >= FracDigits THEN DecVal(SubSeq(d, 1, FracDigits))
    ELSE DecVal(d) * Pow10(FracDigits - Len(d))

ScanNumber(s, i) ==
    LET e == DigitsEnd(s, i)
        int == SubSeq(s, i, e - 1)
    IN  IF e = i THEN Fail
        ELSE IF Len(int) > 1 /\ Char(int, 1) = "0" THEN Ok(PyInt(0), i + 1)
        ELSE IF e <= Len(s) /\ Char(s, e) = "."
             THEN LET f == DigitsEnd(s, e + 1)
                  IN  IF f = e + 1 THEN Ok(PyInt(DecVal(int)), e)
                      ELSE Ok(PyFloat(DecVal(int) * Scale + FracUnits(SubSeq(s, e + 1, f - 1))), f)
        ELSE Ok(PyInt(DecVal(int)), e)

ScanScalar(s, i) ==
    IF i > Len(s) THEN Fail
    ELSE IF Char(s, i) = Quote THEN ScanString(s, i + 1, "")
    ELSE IF i + 3 <= Len(s) /\ SubSeq(s, i, i + 3) = "null" THEN Ok(PyNone, i + 4)
    ELSE ScanNumber(s, i)

RECURSIVE ScanPairs(_, _, _)
\* the pairs of an object after "{" or ",": key, ":", value, then "," or "}"
ScanPairs(s, i0, d) ==
    LET i == SkipWs(s, i0)
    IN  IF i > Len(s) \/ Char(s, i) # Quote THEN Fail
        ELSE LET k == ScanString(s, i + 1, "")
             IN  IF ~k.ok THEN Fail
                 ELSE LET c == SkipWs(s, k.next)
                      IN  IF c > Len(s) \/ Char(s, c) # ":" THEN Fail
                          ELSE LET v == ScanScalar(s, SkipWs(s, c + 1))
                               IN  IF ~v.ok THEN Fail
                                   ELSE LET e == SkipWs(s, v.next)
                                            d2 == [x \in DOMAIN d \cup {k.val.s} |->
                                                      IF x = k.val.s THEN v.val ELSE d[x]]
                                        IN  IF e > Len(s) THEN Fail
                                            ELSE IF Char(s, e) = "}" THEN Ok(PyDict(d2), e + 1)
                                            ELSE IF Char(s, e) = "," THEN ScanPairs(s, e + 1, d2)
                                            ELSE Fail

ScanValue(s, i) ==
    IF i > Len(s) THEN Fail
    ELSE IF Char(s, i) = "{"
         THEN IF SkipWs(s, i + 1) <= Len(s) /\ Char(s, SkipWs(s, i + 1)) = "}"
              THEN Ok(PyDict(<<>>), SkipWs(s, i + 1) + 1)
              ELSE ScanPairs(s, i + 1, <<>>)
    ELSE IF i + 1 <= Len(s) /\ SubSeq(s, i, i + 1) = "[]" THEN Ok(PyList(<<>>), i + 2)
    ELSE ScanScalar(s, i)

\* json.loads(s): the value, or raised JSONDecodeError
json_loads(s) ==
    LET v == ScanValue(s, SkipWs(s, 1))
    IN  IF ~v.ok THEN Raised("JSONDecodeError")
        ELSE IF SkipWs(s, v.next) <= Len(s) THEN Raised("JSONDecodeError")
        ELSE Returned(v.val)

(***************************************************************************)
(* Goal store (dashboard.py 23-32) on the file goal.json.                  *)
(***************************************************************************)
Missing == [exists |-> FALSE, access |-> TRUE, data |-> ""]
OnDisk(text) == [exists |-> TRUE, access |-> TRUE, data |-> text]
\* a file the process may not open (no permission)
NoAccess(text) == [exists |-> TRUE, access |-> FALSE, data |-> text]

can_open(f) == ~f.exists \/ f.access

\* open(GOAL_FILE, "w"): creates the file or truncates it
open_w(f) == [exists |-> TRUE, access |-> TRUE, data |-> ""]

\* the flush at the end of the with block: the writer's text goes to offset 0
\* of the file as it is by then; bytes beyond the text stay
write_at_0(f, text) ==
    [f EXCEPT !.data = text \o (IF Len(f.data) > Len(text)
                                THEN SubSeq(f.data, Len(text) + 1, Len(f.data))
                                ELSE "")]

\* save_goal run without interruption; open raises when access is denied
save_goal(f, goal_data) ==
    IF can_open(f) THEN write_at_0(open_w(f), json_dumps(goal_data)) ELSE f

\* load_goal: any failure to open, read or parse is None
load_goal(f) ==
    IF ~f.exists \/ ~f.access THEN PyNone
    ELSE LET v == json_loads(f.data)
         IN  IF v.kind = "raised" THEN PyNone ELSE v.val

(***************************************************************************)
(* Activities and the dataframe (dashboard.py 144-163, 215-216).           *)
(***************************************************************************)
Activity(type, distance, moving_time) ==
    [type |-> type, name |-> "run", start_date_local |-> "2026-10-30T07:00:00Z",
     distance |-> distance, moving_time |-> moving_time]

\* runs = [act for act in activities if act.get("type") == "Run"]
filter_runs(activities) == LET IsRun(act) == act.type = "Run" IN SelectSeq(activities, IsRun)

\* one row of data (lines 152-161); distances in metres, times in seconds
df_row(act) ==
    [name |-> act.name,
     date |-> SubSeq(act.start_date_local, 1, 10),
     distance_km |-> PyFloat(FDiv(act.distance, 1000)),
     moving_time_min |-> PyFloat(FDiv(act.moving_time, 60)),
     pace_sec_per_km |-> calculate_pace(act.moving_time, act.distance)]

build_df(runs) == [i \in 1..Len(runs) |-> df_row(runs[i])]

RECURSIVE SumUnits(_, _)
SumUnits(df, i) == IF i > Len(df) THEN 0 ELSE Units(df[i].pace_sec_per_km) + SumUnits(df, i + 1)

\* recent_runs_df["pace_sec_per_km"].mean()
mean_pace(df) == IF Len(df) = 0 THEN PyNaN ELSE PyFloat(SumUnits(df, 1) \div Len(df))

\* long_runs = df[df["distance_km"] > 10]; long_runs.shape[0]
completed_long_runs(df) == Cardinality({i \in 1..Len(df) : df[i].distance_km.n > 10 * Scale})

(***************************************************************************)
(* Analyst (dashboard.py 76-89).                                           *)
(***************************************************************************)
Encouraging == "You're currently pacing faster than your goal! Maintain consistency."
BehindGoal == "You're slightly behind goal pace. Focus on tempo runs and sharpening your endurance."
NextRun == "Recommended next run: 6-8 km easy run, or a moderate tempo run based on your energy levels."
Fallback == "I'm a data-driven analyst. Please ask about pace, readiness, or training advice."

PaceReport(avg_pace_formatted, target_pace_formatted) ==
    "Your average recent pace is " \o avg_pace_formatted
    \o ". Target pace for your goal is " \o target_pace_formatted \o "."

\* a < b on Python numbers; comparing with None raises, with nan is False
py_less(a, b) ==
    IF a.tag = "None" \/ b.tag = "None" THEN Raised("TypeError")
    ELSE IF a.tag = "nan" \/ b.tag = "nan" THEN Returned(FALSE)
    ELSE Returned(Units(a) < Units(b))

\* ai_analyst_response with the readiness rule tried before the pace rule
ai_analyst_response_ready_first(question, goal_data, recent_runs_df) ==
    LET q == Lower(question)
        avg_pace == mean_pace(recent_runs_df)
    IN  IF Contains(q, "ready") \/ Contains(q, "close")
        THEN LET faster == py_less(avg_pace, goal_data.target_pace_sec)
             IN  IF faster.kind = "raised" THEN faster
                 ELSE IF faster.val THEN Returned(Encouraging)
                 ELSE Returned(BehindGoal)
        ELSE IF Contains(q, "pace")
        THEN LET avg_pace_formatted == seconds_to_pace(avg_pace)
             IN  IF avg_pace_formatted.kind = "raised" THEN avg_pace_formatted
                 ELSE Returned(PaceReport(avg_pace_formatted.val, goal_data.target_pace_formatted.s))
        ELSE IF Contains(q, "next run") THEN Returned(NextRun)
        ELSE Returned(Fallback)

ai_analyst_response(question, goal_data, recent_runs_df) ==
    LET q == Lower(question)
        avg_pace == mean_pace(recent_runs_df)
    IN  IF Contains(q, "pace")
        THEN LET avg_pace_formatted == seconds_to_pace(avg_pace)
             IN  IF avg_pace_formatted.kind = "raised" THEN avg_pace_formatted
                 ELSE Returned(PaceReport(avg_pace_formatted.val, goal_data.target_pace_formatted.s))
        ELSE IF Contains(q, "ready") \/ Contains(q, "close")
        THEN LET faster == py_less(avg_pace, goal_data.target_pace_sec)
             IN  IF faster.kind = "raised" THEN faster
                 ELSE IF faster.val THEN Returned(Encouraging)
                 ELSE Returned(BehindGoal)
        ELSE IF Contains(q, "next run") THEN Returned(NextRun)
        ELSE Returned(Fallback)

(***************************************************************************)
(* Training load (dashboard.py 214-219).                                   *)
(***************************************************************************)
Max(a, b) == IF a >= b THEN a ELSE b
Min(a, b) == IF a <= b THEN a ELSE b

\* expected_long_runs without the floor of 1
expected_long_runs_raw(weeks_to_race) == weeks_to_race

expected_long_runs(weeks_to_race) == Max(1, weeks_to_race)

\* min(1.0, completed / expected) as Python computes it
training_load(completed, expected) ==
    IF expected = 0 THEN Raised("ZeroDivisionError")
    ELSE IF expected < 0 THEN Returned(PyFloat(Min(Scale, 0 - FDiv(completed, 0 - expected))))
    ELSE Returned(PyFloat(Min(Scale, FDiv(completed, expected))))

(***************************************************************************)
(* Direct calls of the helper functions, arguments drawn from bounded      *)
(* sets.                                                                   *)
(***************************************************************************)
\* datetime.today().date() as a day ordinal of the year (3 November)
Today == 307

Idle == <<>>
Nobody == "nobody"
NoUniverse == [sessions |-> {}]

RunsPerWeek == {RunsPerWeekOptions[i] : i \in 1..4}

PlanCalls ==
    {[fn |-> "generate_training_plan", today |-> t, race_day |-> t + off, runs_per_week |-> n] :
        t \in {1, Today}, off \in (0 - MaxDays)..MaxDays, n \in RunsPerWeek}

\* paces with whole part 0..MaxPaceSec and a few fractions, ints, and the sentinels
PaceArgs ==
    {PyFloat(w * Scale + f) : w \in 0..MaxPaceSec, f \in {0, 1, Scale \div 2, Scale - 1}}
    \cup {PyInt(w) : w \in 0..MaxPaceSec}
    \cup {PyInf, PyNone, PyNaN}

PaceCalls == {[fn |-> "seconds_to_pace", sec_per_km |-> v] : v \in PaceArgs}

\* questions: up to MaxFragments pieces of text put together
MaxFragments == 2
Fragments == {"pace", "PaCe", "Ready", "close", "Next Run", "next", " run", "pa", "ce ", "hi "}

RECURSIVE Join(_, _)
Join(pieces, i) == IF i > Len(pieces) THEN "" ELSE pieces[i] \o Join(pieces, i + 1)

Questions == {Join(p, 1) : p \in UNION {[1..n -> Fragments] : n \in 0..MaxFragments}}

SlowRun == Activity("Run", 5000, 1500)
LongFastRun == Activity("Run", 12000, 3000)
LongSlowRun == Activity("Run", 10500, 4200)
StillRun == Activity("Run", 0, 600)
Ride == Activity("Ride", 30000, 3600)

AnalystDfs == {build_df(r) : r \in {<<SlowRun>>, <<StillRun>>, <<LongFastRun, LongSlowRun>>,
                                     <<SlowRun, LongFastRun, StillRun>>}}

AnalystGoals == {current_goal(rt, tt, Today + 30, 4) : rt \in {"5K", "10K"}, tt \in {"0:25:00", "0:41:40"}}

AnalystCalls ==
    {[fn |-> "ai_analyst_response", question |-> q, goal_data |-> g, recent_runs_df |-> d] :
        q \in Questions, g \in AnalystGoals, d \in AnalystDfs}

InitCalls ==
    /\ file = Missing
    /\ sess = Idle
    /\ universe = NoUniverse
    /\ last_writer = Nobody
    /\ call \in PlanCalls \cup PaceCalls \cup AnalystCalls
    /\ ret = NoRet

CallPlan ==
    /\ call.fn = "generate_training_plan"
    /\ ret = NoRet
    /\ ret' = Returned(generate_training_plan(call.today, call.race_day, call.runs_per_week))
    /\ UNCHANGED <<file, sess, universe, call, last_writer>>

CallPace ==
    /\ call.fn = "seconds_to_pace"
    /\ ret = NoRet
    /\ ret' = seconds_to_pace(call.sec_per_km)
    /\ UNCHANGED <<file, sess, universe, call, last_writer>>

CallAnalyst ==
    /\ call.fn = "ai_analyst_response"
    /\ ret = NoRet
    /\ ret' = ai_analyst_response(call.question, call.goal_data, call.recent_runs_df)
    /\ UNCHANGED <<file, sess, universe, call, last_writer>>

NextCalls == CallPlan \/ CallPace \/ CallAnalyst

SpecCalls == InitCalls /\ [][NextCalls]_vars

(***************************************************************************)
(* Properties of the direct calls.                                         *)
(***************************************************************************)
\* floor(days / 7), stated by its defining inequality
FloorWeeks(days) == CHOOSE w \in (0 - MaxDays - 7)..(MaxDays + 7) : 7 * w <= days /\ days < 7 * w + 7

PlanReturned == call.fn = "generate_training_plan" /\ ret.kind = "value"
PlanWeeksLeft == FloorWeeks(call.race_day - call.today)

Range(seq) == {seq[i] : i \in 1..Len(seq)}

\* what the claim says a training week k (0-based) holds, in order
IsTrainingWeek(wk, k, n) ==
    /\ Len(wk) = 2 + (IF n >= 4 THEN 1 ELSE 0) + (IF n >= 5 THEN 1 ELSE 0)
    /\ wk[1] = "Long Run (" \o DecStr(10 + k) \o " to " \o DecStr(14 + k) \o " km)"
    /\ (TempoRun \in Range(wk)) <=> (n >= 4)
    /\ (Intervals \in Range(wk)) <=> (n >= 5)
    /\ n >= 4 => wk[2] = TempoRun
    /\ n >= 5 => wk[3] = Intervals
    /\ wk[Len(wk)] = EasyRuns
    /\ Cardinality({i \in 1..Len(wk) : wk[i] = EasyRuns}) = 1
    /\ RaceWeek \notin Range(wk)

\* C1: with weeksLeft >= 2 the plan has exactly weeksLeft weeks; the last one is
\* the single taper entry and no other week holds it; every other week k is the
\* long run (10+k to 14+k km), tempo iff runsPerWeek >= 4, intervals iff
\* runsPerWeek >= 5, and one easy-run entry last.
C1_PlanShape ==
    (PlanReturned /\ PlanWeeksLeft >= 2) =>
        /\ Len(ret.val) = PlanWeeksLeft
        /\ ret.val[PlanWeeksLeft] = <<RaceWeek>>
        /\ \A k \in 0..(PlanWeeksLeft - 2) : IsTrainingWeek(ret.val[k + 1], k, call.runs_per_week)

C1_Witness ==
    /\ PlanReturned
    /\ PlanWeeksLeft >= 3
    /\ call.runs_per_week = 4
    /\ Len(ret.val) = PlanWeeksLeft
    /\ Len(ret.val[2]) = 3

\* C2: with weeksLeft < 2, zero and negative included, the plan is exactly the
\* one not-enough-time marker and nothing is raised.
C2_NotEnoughTime ==
    (call.fn = "generate_training_plan" /\ ret # NoRet /\ PlanWeeksLeft < 2) =>
        ret = Returned(<<NotEnoughTime>>)

C2_Witness ==
    /\ PlanReturned
    /\ call.race_day - call.today = 13
    /\ ret.val = <<NotEnoughTime>>

C2_WitnessPast ==
    /\ PlanReturned
    /\ call.race_day < call.today
    /\ ret.val = <<NotEnoughTime>>

PaceIsSentinel(v) == v.tag \in {"None", "nan", "inf"} \/ (IsNumber(v) /\ v.n = 0)

TwoDigits(n) == Char(Digits, (n \div 10) + 1) \o Char(Digits, (n % 10) + 1)

\* C6: seconds_to_pace is total on non-negative seconds and the undefined and
\* infinite sentinels: "-" for 0, undefined and infinite, otherwise "M:SS min/km"
\* with M = floor(sec/60) and SS = floor(sec mod 60) in two digits; it never raises.
C6_Total ==
    (call.fn = "seconds_to_pace" /\ ret # NoRet) =>
        /\ ret.kind = "value"
        /\ PaceIsSentinel(call.sec_per_km) => ret.val = "-"
        /\ ~PaceIsSentinel(call.sec_per_km) =>
              LET whole == Units(call.sec_per_km) \div Scale
              IN  ret.val = DecStr(whole \div 60) \o ":" \o TwoDigits(whole % 60) \o " min/km"

\* the part of C6 the code does meet: every input but the undefined ones
C6_DefinedInputs ==
    (call.fn = "seconds_to_pace" /\ ret # NoRet /\ call.sec_per_km.tag \notin {"None", "nan"}) =>
        /\ ret.kind = "value"
        /\ PaceIsSentinel(call.sec_per_km) => ret.val = "-"
        /\ ~PaceIsSentinel(call.sec_per_km) =>
              LET whole == Units(call.sec_per_km) \div Scale
              IN  ret.val = DecStr(whole \div 60) \o ":" \o TwoDigits(whole % 60) \o " min/km"

\* word w occurs in the question, letter case ignored
HasWord(question, w) ==
    \E i \in 1..Len(question) :
        /\ i + Len(w) - 1 <= Len(question)
        /\ \A j \in 1..Len(w) : LowerChar(Char(question, i + j - 1)) = Char(w, j)

AnalystReturned == call.fn = "ai_analyst_response" /\ ret # NoRet
AnalystMean == mean_pace(call.recent_runs_df)
AnalystFaster == Units(AnalystMean) < Units(call.goal_data.target_pace_sec)

\* C7: first match wins: "pace" gets the mean-pace report whatever else the
\* question holds; else "ready" or "close" gets the encouraging message exactly
\* when the mean pace is strictly below the target, the behind-goal message
\* otherwise; else "next run" gets the recommendation; else the fallback.
C7_FirstMatch ==
    AnalystReturned =>
        LET q == call.question
            pace == HasWord(q, "pace")
            ready == HasWord(q, "ready") \/ HasWord(q, "close")
            next == HasWord(q, "next run")
        IN  /\ ret.kind = "value"
            /\ pace => ret.val = PaceReport(seconds_to_pace(AnalystMean).val,
                                            call.goal_data.target_pace_formatted.s)
            /\ (~pace /\ ready /\ AnalystFaster) => ret.val = Encouraging
            /\ (~pace /\ ready /\ ~AnalystFaster) => ret.val = BehindGoal
            /\ (~pace /\ ~ready /\ next) => ret.val = NextRun
            /\ (~pace /\ ~ready /\ ~next) => ret.val = Fallback

\* a question with both words answered by the pace rule, letter case ignored
C7_Witness ==
    /\ AnalystReturned
    /\ call.question = "PaCeReady"
    /\ AnalystFaster
    /\ ret.val # Encouraging
    /\ Contains(ret.val, "Your average recent pace is ")

\* the mean pace equals the target: the behind-goal message
C7_WitnessEqual ==
    /\ AnalystReturned
    /\ call.question = "close"
    /\ Units(AnalystMean) = Units(call.goal_data.target_pace_sec)
    /\ ret.val = BehindGoal

(***************************************************************************)
(* The goal store used on its own: save_goal and load_goal called one      *)
(* after the other, and the file changed from outside between calls.       *)
(***************************************************************************)
StoreTimes == {"1:45:00", "0:25:00", "abc", "1\"45\\00"}

StoreGoals == {current_goal(rt, tt, d, n) :
                  rt \in {RaceTypes[i] : i \in 1..4}, tt \in StoreTimes,
                  d \in {Today, Today + 30}, n \in {3, 6}}

\* texts json.load rejects
NotJson == {"", "{", "goal", "{\"race_type\": \"5K\", \"target_ti", "{\"race_type\": \"5K\"}}",
            "{\"race_type\": 01}", "{'race_type': '5K'}"}

DamagedFiles == {Missing, NoAccess("{\"race_type\": \"5K\"}")} \cup {OnDisk(t) : t \in NotJson}

InitStore ==
    /\ file \in DamagedFiles \cup {OnDisk("[]")}
    /\ sess = Idle
    /\ universe = NoUniverse
    /\ last_writer = Nobody
    /\ call = [fn |-> "start", written |-> PyNone]
    /\ ret = NoRet

\* save_goal(g); written remembers g while the file is what this call left
StoreSave ==
    \E g \in StoreGoals :
        /\ file' = save_goal(file, g)
        /\ call' = [fn |-> "save_goal", written |-> IF can_open(file) THEN PyDict(g) ELSE PyNone]
        /\ ret' = IF can_open(file) THEN Returned(PyNone) ELSE Raised("PermissionError")
        /\ UNCHANGED <<sess, universe, last_writer>>

StoreLoad ==
    /\ ret' = Returned(load_goal(file))
    /\ call' = [call EXCEPT !.fn = "load_goal"]
    /\ UNCHANGED <<file, sess, universe, last_writer>>

\* the file is removed, locked or damaged by something else
StoreDamage ==
    \E f \in DamagedFiles :
        /\ file' = f
        /\ call' = [fn |-> "damage", written |-> PyNone]
        /\ ret' = NoRet
        /\ UNCHANGED <<sess, universe, last_writer>>

NextStore == StoreSave \/ StoreLoad \/ StoreDamage

SpecStore == InitStore /\ [][NextStore]_vars

\* C4: load_goal returns exactly the record passed to the most recent save_goal
\* (nothing else having written since), and returns None, raising nothing,
\* when the file is missing, cannot be opened or is not JSON.
C4_RoundTrip ==
    call.fn = "load_goal" =>
        /\ call.written # PyNone => ret = Returned(call.written)
        /\ (~file.exists \/ ~file.access \/ file.data \in NotJson) => ret = Returned(PyNone)

\* a saved record whose target time holds a quote and a backslash comes back
C4_Witness ==
    /\ call.fn = "load_goal"
    /\ call.written # PyNone
    /\ call.written.d.target_time.s = "1\"45\\00"
    /\ call.written.d.target_pace_sec = PyNone
    /\ ret = Returned(call.written)

\* a damaged file loads as None
C4_WitnessDamaged ==
    /\ call.fn = "load_goal"
    /\ file.exists /\ file.access /\ file.data \in NotJson /\ file.data # ""
    /\ ret = Returned(PyNone)

(***************************************************************************)
(* The render script (dashboard.py 93-241), one run per session, top to    *)
(* bottom.  Sessions share goal.json and nothing else.                     *)
(***************************************************************************)
NoGoal == <<>>
Nothing == [kind |-> "none"]

\* the script's locals before line 96
Fresh == [pc |-> "load", goal_data |-> PyNone, cur |-> NoGoal, status |-> 0, requests |-> 0,
          df |-> <<>>, sections |-> <<>>, shown |-> Nothing,
          expected |-> 0, training_load |-> PyNone, plan |-> <<>>, response |-> NoRet]

Terminal == {"done", "stopped", "crashed"}

Crash(l, e) == [l EXCEPT !.pc = "crashed", !.shown = [kind |-> "exception", exc |-> e]]

\* bool(v) as the conditional expressions of lines 102-110 take it
Truthy(v) ==
    CASE v.tag = "None" -> FALSE
      [] v.tag = "dict" -> DOMAIN v.d # {}
      [] v.tag = "list" -> Len(v.l) > 0
      [] v.tag = "str" -> v.s # ""
      [] OTHER -> v.n # 0

\* the widget defaults of lines 101-110, or the first exception their
\* evaluation raises
sidebar_defaults(goal_data) ==
    IF ~Truthy(goal_data)
    THEN Returned([race_type |-> RaceTypes[3], target_time |-> "1:45:00",
                   race_date |-> Today + 30, runs_per_week |-> RunsPerWeekOptions[2]])
    ELSE IF goal_data.tag # "dict" THEN Raised("TypeError")
    ELSE LET d == goal_data.d
         IN  IF "race_type" \notin DOMAIN d THEN Raised("KeyError")
             ELSE IF ~(d.race_type.tag = "str" /\ d.race_type.s \in Range(RaceTypes)) THEN Raised("ValueError")
             ELSE IF "target_time" \notin DOMAIN d THEN Raised("KeyError")
             ELSE IF "race_date" \notin DOMAIN d THEN Raised("KeyError")
             ELSE IF d.race_date.tag # "str" THEN Raised("TypeError")
             ELSE IF ParseDate(d.race_date.s).kind = "raised" THEN Raised("ValueError")
             ELSE IF "runs_per_week" \notin DOMAIN d THEN Raised("KeyError")
             ELSE IF ~(IsNumber(d.runs_per_week) /\ \E i \in 1..4 : Units(d.runs_per_week) = RunsPerWeekOptions[i] * Scale)
                  THEN Raised("ValueError")
             ELSE Returned([race_type |-> d.race_type.s,
                            target_time |-> (IF d.target_time.tag = "str" THEN d.target_time.s
                                             ELSE IF d.target_time.tag = "int" THEN DecStr(d.target_time.n)
                                             ELSE ""),
                            race_date |-> ParseDate(d.race_date.s).val,
                            runs_per_week |-> Units(d.runs_per_week) \div Scale])

\* response.status_code != 200 is the failure test of line 39
fetch_ok_2xx(status_code) == status_code \in 200..299

fetch_ok(status_code) == status_code = 200

\* line 96
Load(s) ==
    /\ sess[s].pc = "load"
    /\ sess' = [sess EXCEPT ![s] = [@ EXCEPT !.pc = "sidebar", !.goal_data = load_goal(file)]]
    /\ UNCHANGED <<file, universe, call, ret, last_writer>>

\* lines 98-131: the widgets return what the user has entered (the default
\* unless changed), the target pace is derived and current_goal_data built
Sidebar(s) ==
    /\ sess[s].pc = "sidebar"
    /\ LET dflt == sidebar_defaults(sess[s].goal_data)
       IN  IF dflt.kind = "raised"
           THEN sess' = [sess EXCEPT ![s] = Crash(@, dflt.exc)]
           ELSE \E race_type \in universe.race_types \cup {dflt.val.race_type},
                   target_time_str \in universe.target_times \cup {dflt.val.target_time},
                   race_date \in universe.race_dates \cup {dflt.val.race_date},
                   runs_per_week \in universe.runs_per_week \cup {dflt.val.runs_per_week} :
                    sess' = [sess EXCEPT ![s] = [@ EXCEPT
                                !.pc = "save_open",
                                !.cur = current_goal(race_type, target_time_str, race_date, runs_per_week)]]
    /\ UNCHANGED <<file, universe, call, ret, last_writer>>

\* line 24 inside save_goal: open for writing truncates
SaveOpen(s) ==
    /\ sess[s].pc = "save_open"
    /\ IF can_open(file)
       THEN /\ file' = open_w(file)
            /\ sess' = [sess EXCEPT ![s] = [@ EXCEPT !.pc = "save_write"]]
       ELSE /\ file' = file
            /\ sess' = [sess EXCEPT ![s] = Crash(@, "PermissionError")]
    /\ UNCHANGED <<universe, call, ret, last_writer>>

\* line 25 and the end of the with block: the text reaches the file.
\* goal_data is not read after line 110 and is dropped here.
SaveWrite(s) ==
    /\ sess[s].pc = "save_write"
    /\ file' = write_at_0(file, json_dumps(sess[s].cur))
    /\ last_writer' = s
    /\ sess' = [sess EXCEPT ![s] = [@ EXCEPT !.pc = "fetch", !.goal_data = PyNone]]
    /\ UNCHANGED <<universe, call, ret>>

\* lines 139-148: one GET; a transport failure raises, a status other than 200
\* is shown and stops the script, no run among the activities stops it too
Fetch(s) ==
    /\ sess[s].pc = "fetch"
    /\ \E resp \in universe.responses :
        LET l == [sess[s] EXCEPT !.requests = @ + 1]
            runs == filter_runs(resp.body)
        IN  sess' = [sess EXCEPT ![s] =
                IF resp.kind = "transport" THEN Crash(l, "ConnectionError")
                ELSE IF ~fetch_ok(resp.status)
                     THEN [l EXCEPT !.pc = "stopped", !.status = resp.status,
                                    !.shown = [kind |-> "st.error", status |-> resp.status]]
                ELSE IF Len(runs) = 0
                     THEN [l EXCEPT !.pc = "stopped", !.status = resp.status,
                                    !.shown = [kind |-> "st.warning"]]
                ELSE [l EXCEPT !.pc = "table", !.status = resp.status, !.df = build_df(runs)]]
    /\ UNCHANGED <<file, universe, call, ret, last_writer>>

\* lines 150-172
Table(s) ==
    /\ sess[s].pc = "table"
    /\ sess' = [sess EXCEPT ![s] = [@ EXCEPT !.pc = "chart", !.sections = Append(@, "table")]]
    /\ UNCHANGED <<file, universe, call, ret, last_writer>>

\* lines 174-211: the weekly series is drawn from df and changes nothing; the
\* target line is target_pace_sec / 60, which raises on None
Chart(s) ==
    /\ sess[s].pc = "chart"
    /\ sess' = [sess EXCEPT ![s] =
            IF sess[s].cur.target_pace_sec.tag = "None" THEN Crash(@, "TypeError")
            ELSE [@ EXCEPT !.pc = "progress", !.sections = Append(@, "chart")]]
    /\ UNCHANGED <<file, universe, call, ret, last_writer>>

\* lines 214-222; st.progress rejects a value outside 0.0 .. 1.0
Progress(s) ==
    /\ sess[s].pc = "progress"
    /\ LET weeks_to_race == (ParseDate(sess[s].cur.race_date.s).val - Today) \div 7
           expected == expected_long_runs(weeks_to_race)
           load == training_load(completed_long_runs(sess[s].df), expected)
       IN  sess' = [sess EXCEPT ![s] =
               IF load.kind = "raised" THEN Crash([@ EXCEPT !.expected = expected], load.exc)
               ELSE IF load.val.n < 0 \/ load.val.n > Scale
                    THEN Crash([@ EXCEPT !.expected = expected, !.training_load = load.val],
                               "StreamlitAPIException")
               ELSE [@ EXCEPT !.pc = "plan", !.expected = expected, !.training_load = load.val,
                              !.sections = Append(@, "progress")]]
    /\ UNCHANGED <<file, universe, call, ret, last_writer>>

\* lines 224-233: the plan is computed, then written out line by line
Plan(s) ==
    /\ sess[s].pc = "plan"
    /\ sess' = [sess EXCEPT ![s] = [@ EXCEPT
                    !.pc = "analyst",
                    !.plan = generate_training_plan(Today, ParseDate(sess[s].cur.race_date.s).val,
                                                    sess[s].cur.runs_per_week.n),
                    !.sections = Append(@, "plan")]]
    /\ UNCHANGED <<file, universe, call, ret, last_writer>>

\* lines 235-241: an empty question box gives no answer
Analyst(s) ==
    /\ sess[s].pc = "analyst"
    /\ \E user_question \in universe.questions :
        LET response == IF user_question = "" THEN NoRet
                        ELSE ai_analyst_response(user_question, sess[s].cur, sess[s].df)
        IN  sess' = [sess EXCEPT ![s] =
                IF response.kind = "raised" THEN Crash(@, response.exc)
                ELSE [@ EXCEPT !.pc = "done", !.response = response,
                               !.sections = Append(@, "analyst")]]
    /\ UNCHANGED <<file, universe, call, ret, last_writer>>

\* any interaction runs the script again from the top
Rerun(s) ==
    /\ sess[s].pc \in Terminal
    /\ sess' = [sess EXCEPT ![s] = Fresh]
    /\ UNCHANGED <<file, universe, call, ret, last_writer>>

(***************************************************************************)
(* One browser session rendering again and again.                          *)
(***************************************************************************)
GoodGoal == current_goal("5K", "0:25:00", Today + 30, 4)
\* goal.json edited by hand: the pace alone, and the pace together with runs_per_week
HandEditedPace == [GoodGoal EXCEPT !.target_pace_sec = PyInt(999)]
HandEditedRuns == [HandEditedPace EXCEPT !.runs_per_week = PyInt(7)]

Http(status, body) == [kind |-> "http", status |-> status, body |-> body]
TransportFailure == [kind |-> "transport"]

OneTab ==
    [sessions |-> {"tab1"},
     race_types |-> Range(RaceTypes),
     target_times |-> {"1:45:00", "0:25:00", "abc"},
     race_dates |-> {Today - 10, Today, Today + 13, Today + 30},
     runs_per_week |-> RunsPerWeek,
     responses |-> {TransportFailure, Http(500, <<>>), Http(401, <<>>), Http(204, <<>>),
                    Http(200, <<>>), Http(200, <<Ride>>), Http(200, <<SlowRun, Ride>>),
                    Http(200, <<LongFastRun, Ride, LongSlowRun, StillRun>>)},
     questions |-> {"", "What is my PACE?", "Am I ready?", "hello"},
     files |-> {Missing, NoAccess(json_dumps(GoodGoal)), OnDisk(""), OnDisk("[]"), OnDisk("5"),
                OnDisk("{\"race_type\": \"5K\"}"), OnDisk(json_dumps(GoodGoal)),
                OnDisk(json_dumps(HandEditedPace)), OnDisk(json_dumps(HandEditedRuns))}]

InitRender(u) ==
    /\ universe = u
    /\ file \in u.files
    /\ sess = [s \in u.sessions |-> Fresh]
    /\ call = [fn |-> "render"]
    /\ ret = NoRet
    /\ last_writer = Nobody

Init == InitRender(OneTab)

Next ==
    \/ \E s \in DOMAIN sess : Load(s)
    \/ \E s \in DOMAIN sess : Sidebar(s)
    \/ \E s \in DOMAIN sess : SaveOpen(s)
    \/ \E s \in DOMAIN sess : SaveWrite(s)
    \/ \E s \in DOMAIN sess : Fetch(s)
    \/ \E s \in DOMAIN sess : Table(s)
    \/ \E s \in DOMAIN sess : Chart(s)
    \/ \E s \in DOMAIN sess : Progress(s)
    \/ \E s \in DOMAIN sess : Plan(s)
    \/ \E s \in DOMAIN sess : Analyst(s)
    \/ \E s \in DOMAIN sess : Rerun(s)

Spec == Init /\ [][Next]_vars

(***************************************************************************)
(* Two browser tabs, one render each, their steps interleaved.             *)
(***************************************************************************)
TwoTabs ==
    [sessions |-> {"tab1", "tab2"},
     race_types |-> {"5K", "Marathon"},
     target_times |-> {"1:45:00"},
     race_dates |-> {Today + 30},
     runs_per_week |-> {4},
     responses |-> {Http(200, <<SlowRun>>), Http(500, <<>>)},
     questions |-> {""},
     files |-> {Missing, OnDisk(json_dumps(GoodGoal))}]

InitRace == InitRender(TwoTabs)

NextRace ==
    \/ \E s \in DOMAIN sess : Load(s)
    \/ \E s \in DOMAIN sess : Sidebar(s)
    \/ \E s \in DOMAIN sess : SaveOpen(s)
    \/ \E s \in DOMAIN sess : SaveWrite(s)
    \/ \E s \in DOMAIN sess : Fetch(s)
    \/ \E s \in DOMAIN sess : Table(s)
    \/ \E s \in DOMAIN sess : Chart(s)
    \/ \E s \in DOMAIN sess : Progress(s)
    \/ \E s \in DOMAIN sess : Plan(s)
    \/ \E s \in DOMAIN sess : Analyst(s)

SpecRace == InitRace /\ [][NextRace]_vars

(***************************************************************************)
(* Properties of the render.                                               *)
(***************************************************************************)
AllSections == <<"table", "chart", "progress", "plan", "analyst">>

GoalInvalid(l) == l.cur # NoGoal /\ ParseTime(l.cur.target_time.s).kind = "raised"

FetchedRuns(l) == l.status = 200 /\ Len(l.df) >= 1

\* C3: a target time that does not parse gives a goal marked invalid (pace
\* undefined, the invalid-format marker), and with a successful fetch of at
\* least one run the render still goes through the table, chart, training
\* load, plan and analyst sections instead of failing.
C3_DegradedRender ==
    \A s \in DOMAIN sess :
        GoalInvalid(sess[s]) =>
            /\ sess[s].cur.target_pace_sec = PyNone
            /\ sess[s].cur.target_pace_formatted = PyStr(InvalidFormat)
            /\ (sess[s].pc \in Terminal /\ FetchedRuns(sess[s])) =>
                    (sess[s].pc = "done" /\ sess[s].sections = AllSections)

\* the part of C3 the code does meet: the goal is marked invalid and saved
C3_MarkedInvalid ==
    \A s \in DOMAIN sess :
        GoalInvalid(sess[s]) =>
            /\ sess[s].cur.target_pace_sec = PyNone
            /\ sess[s].cur.target_pace_formatted = PyStr(InvalidFormat)

NothingRendered(l) ==
    /\ l.sections = <<>>
    /\ l.df = <<>>
    /\ l.plan = <<>>
    /\ l.training_load = PyNone
    /\ l.response = NoRet

\* what C5 says of a failed request: the render stops there with the status
\* shown, after one request, nothing of the later sections done
C5_FailureAborts(l) ==
    /\ l.requests <= 1
    /\ l.shown.kind = "st.error" =>
          /\ l.pc = "stopped"
          /\ l.shown.status = l.status
          /\ l.requests = 1
          /\ NothingRendered(l)
    /\ (l.shown.kind = "exception" /\ l.shown.exc = "ConnectionError") =>
          (l.pc = "crashed" /\ l.requests = 1 /\ NothingRendered(l))

\* C5 as claimed: a non-success status aborts the render (status shown, one
\* request, no later section), and every 2xx response lets the render continue.
C5_Every2xxContinues ==
    \A s \in DOMAIN sess :
        /\ C5_FailureAborts(sess[s])
        /\ (sess[s].status # 0 /\ sess[s].status \notin 200..299) => sess[s].shown.kind = "st.error"
        /\ sess[s].status \in 200..299 => sess[s].shown.kind # "st.error"

\* C5 as amended: every status other than 200, the other 2xx codes included,
\* aborts the render (status shown, one request, no later section); status 200
\* alone lets the render continue past the fetch, and then only an empty list of
\* runs stops it, with a warning.
C5_Only200Continues ==
    \A s \in DOMAIN sess :
        /\ C5_FailureAborts(sess[s])
        /\ (sess[s].status # 0 /\ sess[s].status # 200) => sess[s].shown.kind = "st.error"
        /\ sess[s].status = 200 =>
              /\ sess[s].shown.kind # "st.error"
              /\ sess[s].pc = "stopped" => (sess[s].shown.kind = "st.warning" /\ sess[s].df = <<>>)

\* a 2xx status that is not 200 aborts the render
C5_Witness ==
    \E s \in DOMAIN sess :
        /\ sess[s].status = 204
        /\ sess[s].pc = "stopped"
        /\ sess[s].shown = [kind |-> "st.error", status |-> 204]
        /\ sess[s].requests = 1
        /\ sess[s].cur # NoGoal

\* status 200 with runs: the render has gone on
C5_WitnessContinues ==
    \E s \in DOMAIN sess : sess[s].status = 200 /\ sess[s].pc = "done" /\ sess[s].requests = 1

IsGoalRecord(g) ==
    /\ g.tag = "dict"
    /\ \A i \in 1..Len(GoalKeys) : GoalKeys[i] \in DOMAIN g.d
    /\ g.d.race_type.tag = "str" /\ g.d.race_type.s \in DOMAIN RACE_DISTANCES
    /\ g.d.target_time.tag = "str"

\* target_pace_sec is what target_time and race_type give
Rederived(d) ==
    LET t == ParseTime(d.target_time.s)
    IN  IF t.kind = "value"
        THEN /\ IsNumber(d.target_pace_sec)
             /\ Units(d.target_pace_sec) = FDiv(t.val * DistanceUnit, RACE_DISTANCES[d.race_type.s])
        ELSE /\ d.target_pace_sec = PyNone
             /\ d.target_pace_formatted = PyStr(InvalidFormat)

\* C8: after any sequence of renders, whatever goal.json held before, the
\* persisted goal record has target_pace_sec equal to target_time in seconds
\* over the distance of race_type when target_time parses, and null with the
\* invalid-format marker otherwise.
C8_AlwaysRederived ==
    (\E s \in DOMAIN sess : sess[s].pc \in Terminal) =>
        (IsGoalRecord(load_goal(file)) => Rederived(load_goal(file).d))

\* the part of C8 the code does meet: a render that gets as far as saving
\* leaves a record derived afresh, whatever pace the loaded record held
C8_SavedRederived ==
    \A s \in DOMAIN sess :
        sess[s].pc \in {"fetch", "table", "chart", "progress", "plan", "analyst", "done", "stopped"} =>
            /\ load_goal(file) = PyDict(sess[s].cur)
            /\ Rederived(load_goal(file).d)

\* a complete record one render computed
WrittenByOneRender(g) ==
    \/ g = PyDict(GoodGoal)
    \/ \E rt \in Range(RaceTypes), tt \in universe.target_times \cup {"0:25:00"},
          rd \in universe.race_dates, n \in RunsPerWeek : g = PyDict(current_goal(rt, tt, rd, n))

\* C9: with renders interleaved on goal.json the outcome is last write wins:
\* once all have finished the file holds exactly the record of the render
\* that saved last, never a mix, and every load saw absence or one complete
\* record of a single render.
C9_LastWriteWins ==
    /\ ((\A s \in DOMAIN sess : sess[s].pc \in Terminal) /\ last_writer # Nobody) =>
            file.data = json_dumps(sess[last_writer].cur)
    /\ \A s \in DOMAIN sess :
            sess[s].pc = "sidebar" =>
                (sess[s].goal_data = PyNone \/ WrittenByOneRender(sess[s].goal_data))

\* the part of C9 the code does meet: what a load returns
C9_LoadsAreWhole ==
    \A s \in DOMAIN sess :
        sess[s].pc = "sidebar" =>
            (sess[s].goal_data = PyNone \/ WrittenByOneRender(sess[s].goal_data))

ProgressShown(l) == \E i \in 1..Len(l.sections) : l.sections[i] = "progress"

\* C10: for every count of completed long runs and every race date, past
\* ones included, the value handed to the progress bar lies in 0 .. 1 and the
\* expected-long-runs denominator is at least 1: no division by zero, no
\* negative ratio.
C10_ProgressRange ==
    \A s \in DOMAIN sess :
        /\ ProgressShown(sess[s]) =>
              /\ sess[s].expected >= 1
              /\ sess[s].training_load.tag = "float"
              /\ sess[s].training_load.n >= 0
              /\ sess[s].training_load.n <= Scale
        /\ ~(sess[s].pc = "crashed" /\ sess[s].sections = <<"table", "chart">>)

\* a race date in the past with long runs done: the bar is full
C10_Witness ==
    \E s \in DOMAIN sess :
        /\ ProgressShown(sess[s])
        /\ ParseDate(sess[s].cur.race_date.s).val < Today
        /\ completed_long_runs(sess[s].df) = 2
        /\ sess[s].expected = 1
        /\ sess[s].training_load = PyFloat(Scale)

\* a race four weeks away with two long runs done: half way
C10_WitnessPartial ==
    \E s \in DOMAIN sess :
        /\ ProgressShown(sess[s])
        /\ sess[s].expected = 4
        /\ sess[s].training_load = PyFloat(Scale \div 2)

====
